---- MODULE Spec2Model ----
(***************************************************************************)
(* The AIAgentForm chat component of the Odoo AI agent addon: the          *)
(* sendMessage pipeline (user Turn, model-service call, formatResponse,    *)
(* createOdooRecordLinks, DATABASE_OPERATION directive, RPC execution,     *)
(* assistant Turn) with the text functions it applies, the click handler   *)
(* of the record links, and the AIAgentWidget component of ai_agent.js.    *)
(*                                                                         *)
(* Text is a sequence of lexemes.  A lexeme is a chunk of characters that  *)
(* none of the program's regular expressions matches in part: a word, a    *)
(* run of digits, one punctuation character, one whitespace character.     *)
(* Every regular expression of the source is an operator that gives the    *)
(* length of its match at a position of the lexeme sequence.               *)
(***************************************************************************)
EXTENDS Integers, Sequences, FiniteSets, TLC

\* ------------------------------------------------------------ lexemes

\* \s of the regular expressions and of String.prototype.trim
Ws == {" ", "\n"}

\* \d+ : the digit runs of the texts of this model, with their lengths
DigitLen == [d \in {"3", "7", "41", "42", "882", "2024"} |->
               IF d \in {"3", "7"} THEN 1
               ELSE IF d \in {"41", "42"} THEN 2
               ELSE IF d = "882" THEN 3 ELSE 4]

Digits == DOMAIN DigitLen

\* the number a digit run denotes
DigitValue == [d \in Digits |->
                 CASE d = "3" -> 3 [] d = "7" -> 7 [] d = "41" -> 41
                   [] d = "42" -> 42 [] d = "882" -> 882 [] d = "2024" -> 2024]

\* parseInt(string): the leading digit run, NaN when there is none
parseInt(str) ==
    IF str # <<>> /\ str[1] \in Digits THEN DigitValue[str[1]] ELSE "NaN"

\* the /i flag of the record patterns: the lower-case form of a lexeme
Lower(t) ==
    CASE t = "WO" -> "wo"
      [] t = "MO" -> "mo"
      [] t = "SO" -> "so"
      [] t = "PO" -> "po"
      [] t = "Lead" -> "lead"
      [] t = "Invoice" -> "invoice"
      [] OTHER -> t

\* ------------------------------------------------------------ strings

\* the least and the greatest element of a non-empty set of positions
Min(S) == CHOOSE x \in S : \A y \in S : x <= y
Max(S) == CHOOSE x \in S : \A y \in S : y <= x

RECURSIVE Flatten(_)
\* Array.prototype.join('') of a sequence of texts
Flatten(ss) == IF ss = <<>> THEN <<>> ELSE Head(ss) \o Flatten(Tail(ss))

\* s.startsWith(pat, i) on lexemes
MatchAt(s, pat, i) ==
    /\ i >= 1
    /\ i + Len(pat) - 1 <= Len(s)
    /\ \A k \in 1..Len(pat) : s[i + k - 1] = pat[k]

\* s.indexOf(pat, from): the first position >= from where pat occurs, 0 if none
IndexOf(s, pat, from) ==
    LET hits == {i \in from..Len(s) : MatchAt(s, pat, i)}
    IN  IF hits = {} THEN 0 ELSE Min(hits)

\* s.includes(pat)
Includes(s, pat) == IndexOf(s, pat, 1) # 0

\* String.prototype.trim
Trim(s) ==
    LET keep == {i \in 1..Len(s) : s[i] \notin Ws}
    IN  IF keep = {} THEN <<>>
        ELSE SubSeq(s, Min(keep), Max(keep))

RECURSIVE SplitLines(_)
\* text.split('\n')
SplitLines(s) ==
    LET n == IndexOf(s, <<"\n">>, 1)
    IN  IF n = 0 THEN <<s>>
        ELSE <<SubSeq(s, 1, n - 1)>> \o SplitLines(SubSeq(s, n + 1, Len(s)))

RECURSIVE JoinLines(_)
\* lines.join('\n')
JoinLines(ls) ==
    IF Len(ls) = 1 THEN ls[1] ELSE ls[1] \o <<"\n">> \o JoinLines(Tail(ls))

\* the number of consecutive lexemes of class C from position i on
RunLen(s, C, i) ==
    LET stops == {j \in i..Len(s) : s[j] \notin C}
    IN  IF i > Len(s) \/ i < 1 THEN 0
        ELSE IF stops = {} THEN Len(s) - i + 1 ELSE Min(stops) - i

RECURSIVE Rewrite(_, _, _, _)
\* String.prototype.replace with a /g pattern: the matches are taken left to
\* right and do not overlap; lens[i] is the length of the match at i (0: none)
\* and reps[i] its replacement
Rewrite(s, lens, reps, i) ==
    LET ms == {j \in i..Len(s) : lens[j] > 0}
        m == Min(ms)
    IN  IF ms = {} THEN SubSeq(s, i, Len(s))
        ELSE SubSeq(s, i, m - 1) \o reps[m] \o Rewrite(s, lens, reps, m + lens[m])

ReplaceAll(s, M(_, _), R(_, _)) ==
    LET lens == [i \in 1..Len(s) |-> M(s, i)]
        reps == [i \in 1..Len(s) |-> IF lens[i] > 0 THEN R(s, i) ELSE <<>>]
    IN  Rewrite(s, lens, reps, 1)

\* ------------------------------------------------------------ escapeHtml

\* one .replace(/c/g, "entity") pass; an entity is the lexeme "&" and the
\* lexeme of what follows it, so that a later escapeHtml escapes its "&" again
ReplaceLexeme(s, from, to) ==
    Flatten([i \in 1..Len(s) |-> IF s[i] = from THEN to ELSE <<s[i]>>])

escapeHtml(unsafe) ==
    ReplaceLexeme(
      ReplaceLexeme(
        ReplaceLexeme(
          ReplaceLexeme(
            ReplaceLexeme(unsafe, "&", <<"&", "amp;">>),
            "<", <<"&", "lt;">>),
          ">", <<"&", "gt;">>),
        "\"", <<"&", "quot;">>),
      "'", <<"&", "#039;">>)

\* ------------------------------------------------------------ formatResponse

\* a whole URL up to its first character that [^\s]+ still takes, and a whole
\* e-mail address, are one lexeme each
Urls == {"https://odoo.example/web"}
Emails == {"bob@example.com"}

\* (?:Dr\.|Mr\.|Mrs\.|Ms\.|Prof\.|etc\.|e\.g\.|i\.e\.)
Abbreviations == {"Dr.", "Mr.", "Mrs.", "Ms.", "Prof.", "etc.", "e.g.", "i.e."}

\* [.!?]
SentenceEnds == {".", "!", "?"}

\* [-...] : the character class of the bullet pattern as the file spells it
Bullets == {"-", "â", "€", "¢"}

\* [^\s]* from position i on
NonWsRun(s, i) ==
    LET stops == {j \in i..Len(s) : s[j] \in Ws}
    IN  IF i > Len(s) THEN 0
        ELSE IF stops = {} THEN Len(s) - i + 1 ELSE Min(stops) - i

\* /(https?:\/\/[^\s]+|[\w.-]+@[\w.-]+\.\w+)/g
UrlEmailMatch(s, i) ==
    IF s[i] \in Urls THEN 1 + NonWsRun(s, i + 1)
    ELSE IF s[i] \in Emails THEN 1 ELSE 0

UrlEmailRepl(s, i) ==
    <<"URL_EMAIL_PLACEHOLDER_">> \o SubSeq(s, i, i + UrlEmailMatch(s, i) - 1)

\* /(\d+\.\d+)/g
DecimalMatch(s, i) ==
    LET d1 == RunLen(s, Digits, i)
        d2 == RunLen(s, Digits, i + d1 + 1)
    IN  IF d1 >= 1 /\ i + d1 <= Len(s) /\ s[i + d1] = "." /\ d2 >= 1
        THEN d1 + 1 + d2 ELSE 0

DecimalRepl(s, i) ==
    <<"DECIMAL_PLACEHOLDER_">> \o SubSeq(s, i, i + DecimalMatch(s, i) - 1)

\* /(\d{1,2}\.\d{1,2}\.\d{2,4})/g on whole digit runs
DateMatch(s, i) ==
    IF /\ i + 4 <= Len(s)
       /\ s[i] \in Digits /\ DigitLen[s[i]] <= 2
       /\ s[i + 1] = "."
       /\ s[i + 2] \in Digits /\ DigitLen[s[i + 2]] <= 2
       /\ s[i + 3] = "."
       /\ s[i + 4] \in Digits /\ DigitLen[s[i + 4]] >= 2 /\ DigitLen[s[i + 4]] <= 4
    THEN 5 ELSE 0

DateRepl(s, i) == <<"DATE_PLACEHOLDER_">> \o SubSeq(s, i, i + 4)

\* /(?:Dr\.|...)/g replaced by 'ABBR_PLACEHOLDER_$1': the pattern has no
\* capture group, so "$1" is not substituted and stays in the text as written
AbbrMatch(s, i) == IF s[i] \in Abbreviations THEN 1 ELSE 0

AbbrRepl(s, i) == <<"ABBR_PLACEHOLDER_", "$1">>

\* /([.!?])\s+/g -> '$1\n'
SentenceMatch(s, i) ==
    LET w == RunLen(s, Ws, i + 1)
    IN  IF s[i] \in SentenceEnds /\ w >= 1 THEN 1 + w ELSE 0

SentenceRepl(s, i) == <<s[i], "\n">>

\* /:\s+/g -> ':\n'
ColonMatch(s, i) ==
    LET w == RunLen(s, Ws, i + 1)
    IN  IF s[i] = ":" /\ w >= 1 THEN 1 + w ELSE 0

ColonRepl(s, i) == <<":", "\n">>

\* /(\d+\.)\s+/g -> '\n$1 '
NumberedMatch(s, i) ==
    LET d == RunLen(s, Digits, i)
        w == RunLen(s, Ws, i + d + 1)
    IN  IF d >= 1 /\ i + d <= Len(s) /\ s[i + d] = "." /\ w >= 1
        THEN d + 1 + w ELSE 0

NumberedRepl(s, i) ==
    <<"\n">> \o SubSeq(s, i, i + RunLen(s, Digits, i)) \o <<" ">>

\* /([-...])\s+/g -> '\n$1 '
BulletMatch(s, i) ==
    LET w == RunLen(s, Ws, i + 1)
    IN  IF s[i] \in Bullets /\ w >= 1 THEN 1 + w ELSE 0

BulletRepl(s, i) == <<"\n", s[i], " ">>

\* line.replace(/X_PLACEHOLDER_/g, '')
RemoveLexeme(s, ph) == SelectSeq(s, LAMBDA t : t # ph)

\* the body of lines.map(line => ...)
FormatLine(line) ==
    LET l1 == ReplaceAll(line, UrlEmailMatch, UrlEmailRepl)
        l2 == ReplaceAll(l1, DecimalMatch, DecimalRepl)
        l3 == ReplaceAll(l2, DateMatch, DateRepl)
        l4 == ReplaceAll(l3, AbbrMatch, AbbrRepl)
        l5 == ReplaceAll(l4, SentenceMatch, SentenceRepl)
        l6 == ReplaceAll(l5, ColonMatch, ColonRepl)
        l7 == ReplaceAll(l6, NumberedMatch, NumberedRepl)
        l8 == ReplaceAll(l7, BulletMatch, BulletRepl)
    IN  RemoveLexeme(
          RemoveLexeme(
            RemoveLexeme(
              RemoveLexeme(l8, "URL_EMAIL_PLACEHOLDER_"),
              "DECIMAL_PLACEHOLDER_"),
            "DATE_PLACEHOLDER_"),
          "ABBR_PLACEHOLDER_")

\* /\n\n+/g -> '\n\n'
BlankRunMatch(s, i) ==
    LET n == RunLen(s, {"\n"}, i) IN IF n >= 2 THEN n ELSE 0

\* /\n\s*\n/g -> '\n\n' : \s* is greedy and gives back up to the last newline
BlankLineMatch(s, i) ==
    LET w == RunLen(s, Ws, i + 1)
        nl == {j \in (i + 1)..(i + w) : s[j] = "\n"}
    IN  IF s[i] = "\n" /\ nl # {}
        THEN Max(nl) - i + 1 ELSE 0

TwoNewlines(s, i) == <<"\n", "\n">>

formatResponse(text) ==
    LET lines == SplitLines(text)
        mapped == [k \in 1..Len(lines) |-> FormatLine(lines[k])]
        joined == JoinLines(mapped)
    IN  Trim(ReplaceAll(ReplaceAll(joined, BlankRunMatch, TwoNewlines),
                        BlankLineMatch, TwoNewlines))

\* ------------------------------------------------------------ createOdooRecordLinks

\* the patterns array: the alternatives of group 1 in their order (lower case,
\* the patterns carry /i), the model and the display label
patterns ==
    << [keys |-> << <<"workorder">>, <<"wo">> >>,
        model |-> "mrp.workorder", display |-> <<"Work", " ", "Order">>],
       [keys |-> << <<"manufacturing", " ", "order">>, <<"mo">> >>,
        model |-> "mrp.production", display |-> <<"Manufacturing", " ", "Order">>],
       [keys |-> << <<"lead">>, <<"opportunity">> >>,
        model |-> "crm.lead", display |-> <<"Lead">>],
       [keys |-> << <<"contact">>, <<"partner">> >>,
        model |-> "res.partner", display |-> <<"Contact">>],
       [keys |-> << <<"sale", " ", "order">>, <<"so">> >>,
        model |-> "sale.order", display |-> <<"Sale", " ", "Order">>],
       [keys |-> << <<"purchase", " ", "order">>, <<"po">> >>,
        model |-> "purchase.order", display |-> <<"Purchase", " ", "Order">>],
       [keys |-> << <<"invoice">> >>,
        model |-> "account.move", display |-> <<"Invoice">>] >>

\* group 1 at position i: the length of the first alternative that matches
KeyLen(s, p, i) ==
    LET hit(k) == /\ i + Len(k) - 1 <= Len(s)
                  /\ \A j \in 1..Len(k) : Lower(s[i + j - 1]) = k[j]
        ks == {n \in 1..Len(p.keys) : hit(p.keys[n])}
    IN  IF ks = {} THEN 0
        ELSE Len(p.keys[Min(ks)])

\* the position of group 2 (\d+) of a match of (key)\s*#?(\d+) at i, 0 if none
IdStart(s, p, i) ==
    LET k == KeyLen(s, p, i)
        w == RunLen(s, Ws, i + k)
        h == IF i + k + w <= Len(s) /\ s[i + k + w] = "#" THEN 1 ELSE 0
    IN  IF k >= 1 /\ RunLen(s, Digits, i + k + w + h) >= 1
        THEN i + k + w + h ELSE 0

\* the length of the match of pattern.regex at i, 0 if none
RecordMatch(s, p, i) ==
    LET g == IdStart(s, p, i)
    IN  IF g = 0 THEN 0 ELSE g - i + RunLen(s, Digits, g)

\* `<a href="#" class="odoo-record-link" data-model="${pattern.model}"
\*   data-id="${id}">${displayText}</a>`
Anchor(p, id) ==
    <<"<", "a", " ", "href", "=", "\"", "#", "\"", " ",
      "class", "=", "\"", "odoo-record-link", "\"", " ",
      "data-model", "=", "\"", p.model, "\"", " ", "data-id", "=", "\"">>
    \o id \o <<"\"", ">">> \o p.display \o <<" ", "#">> \o id
    \o <<"<", "/", "a", ">">>

RECURSIVE SplitParts(_, _, _)
\* part.split(pattern.regex) and the loop over its segments: the text before
\* each match, the anchor of the match, and the text after the last match
SplitParts(s, p, i) ==
    LET ms == {j \in i..Len(s) : RecordMatch(s, p, j) > 0}
        m == Min(ms)
        n == RecordMatch(s, p, m)
    IN  IF ms = {} THEN <<SubSeq(s, i, Len(s))>>
        ELSE <<SubSeq(s, i, m - 1), Anchor(p, SubSeq(s, IdStart(s, p, m), m + n - 1))>>
             \o SplitParts(s, p, m + n)

HasMarkupNever(part) == FALSE

\* part.includes('<') || part.includes('>')
HasMarkup(part) == \E i \in 1..Len(part) : part[i] \in {"<", ">"}

\* one round of patterns.forEach: newParts for this pattern
ApplyPattern(parts, p) ==
    Flatten([k \in 1..Len(parts) |->
               IF HasMarkup(parts[k]) THEN <<parts[k]>>
               ELSE SplitParts(parts[k], p, 1)])

RECURSIVE ApplyPatterns(_, _)
ApplyPatterns(parts, k) ==
    IF k > Len(patterns) THEN parts
    ELSE ApplyPatterns(ApplyPattern(parts, patterns[k]), k + 1)

createOdooRecordLinks(text) == Flatten(ApplyPatterns(<<text>>, 1))

\* the opening of the tag that createOdooRecordLinks writes
AnchorOpen == <<"<", "a", " ", "href">>

\* event.target.dataset of the link that starts at position i: the values of
\* the data-model and data-id attributes
Dataset(s, i) ==
    LET m == IndexOf(s, <<"data-model", "=", "\"">>, i) + 3
        d == IndexOf(s, <<"data-id", "=", "\"">>, i) + 3
    IN  [model |-> s[m], id |-> SubSeq(s, d, IndexOf(s, <<"\"">>, d) - 1)]

RECURSIVE RecordLinks(_, _)
\* the elements of class odoo-record-link of a text from position i on, in
\* their order, each as its dataset
RecordLinks(s, i) ==
    LET a == IndexOf(s, AnchorOpen, i)
    IN  IF a = 0 THEN <<>> ELSE <<Dataset(s, a)>> \o RecordLinks(s, a + 1)

\* ------------------------------------------------------------ the directive

\* the literal "DATABASE_OPERATION:"
Marker == <<"DATABASE_OPERATION", ":">>

\* formattedResponse.split("DATABASE_OPERATION:")[1].trim().split('\n')[0]
\* (split cuts at every occurrence of the marker: element 1 ends at the second)
OperationStr(f) ==
    LET a == IndexOf(f, Marker, 1)
        b == IndexOf(f, Marker, a + Len(Marker))
        seg == SubSeq(f, a + Len(Marker), IF b = 0 THEN Len(f) ELSE b - 1)
    IN  Head(SplitLines(Trim(seg)))

\* JSON.parse: insignificant whitespace between the tokens
SkipSp(s, i) == i + RunLen(s, Ws, i)

\* a JSON string starting at i: the position after its closing quote, 0 if none
StringEnd(s, i) ==
    LET q == IndexOf(s, <<"\"">>, i + 1) IN IF q = 0 THEN 0 ELSE q + 1

\* a JSON number starting at i: -? digits (. digits)?
NumberEnd(s, i) ==
    LET m == IF s[i] = "-" THEN i + 1 ELSE i
        frac == m + 2 <= Len(s) /\ s[m + 1] = "." /\ s[m + 2] \in Digits
    IN  IF m > Len(s) \/ s[m] \notin Digits THEN 0
        ELSE IF frac THEN m + 3 ELSE m + 1

RECURSIVE ValueEnd(_, _), ElementsEnd(_, _, _), MembersEnd(_, _, _)
\* a JSON value starting at i: the position after it, 0 on a syntax error
ValueEnd(s, i) ==
    IF i > Len(s) THEN 0
    ELSE IF s[i] = "\"" THEN StringEnd(s, i)
    ELSE IF s[i] = "{" THEN MembersEnd(s, SkipSp(s, i + 1), TRUE)
    ELSE IF s[i] = "[" THEN ElementsEnd(s, SkipSp(s, i + 1), TRUE)
    ELSE IF s[i] \in {"true", "false", "null"} THEN i + 1
    ELSE NumberEnd(s, i)

\* the elements of an array from i to its "]"
ElementsEnd(s, i, first) ==
    IF i > Len(s) THEN 0
    ELSE IF first /\ s[i] = "]" THEN i + 1
    ELSE LET e == ValueEnd(s, i)
             j == SkipSp(s, e)
         IN  IF e = 0 \/ j > Len(s) THEN 0
             ELSE IF s[j] = "]" THEN j + 1
             ELSE IF s[j] = "," THEN ElementsEnd(s, SkipSp(s, j + 1), FALSE)
             ELSE 0

\* the members of an object from i to its "}"
MembersEnd(s, i, first) ==
    IF i > Len(s) THEN 0
    ELSE IF first /\ s[i] = "}" THEN i + 1
    ELSE IF s[i] # "\"" THEN 0
    ELSE LET k == StringEnd(s, i)
             c == SkipSp(s, k)
             e == ValueEnd(s, SkipSp(s, c + 1))
             j == SkipSp(s, e)
         IN  IF k = 0 \/ c > Len(s) \/ s[c] # ":" THEN 0
             ELSE IF e = 0 \/ j > Len(s) THEN 0
             ELSE IF s[j] = "}" THEN j + 1
             ELSE IF s[j] = "," THEN MembersEnd(s, SkipSp(s, j + 1), FALSE)
             ELSE 0

\* the text is one JSON value and nothing else
IsJson(s) ==
    LET e == ValueEnd(s, SkipSp(s, 1))
    IN  e # 0 /\ SkipSp(s, e) = Len(s) + 1

\* a JSON value without its insignificant whitespace (the whitespace that is
\* not inside a string: an even number of quotes stands before it)
Canon(s) ==
    LET quotes(i) == Cardinality({j \in 1..(i - 1) : s[j] = "\""})
        keep == {i \in 1..Len(s) : ~(s[i] \in Ws /\ quotes(i) % 2 = 0)}
        nth(k) == CHOOSE i \in keep : Cardinality({j \in keep : j <= i}) = k
    IN  [k \in 1..Cardinality(keep) |-> s[nth(k)]]

RECURSIVE Property(_, _, _, _)
\* obj[name] of the object whose members start at i: the value of the last
\* member of that name, found so far in `found`; undefined is <<>>
Property(s, i, name, found) ==
    IF s[i] = "}" THEN found
    ELSE LET k == StringEnd(s, i)
             v == SkipSp(s, SkipSp(s, k) + 1)
             e == ValueEnd(s, v)
             j == SkipSp(s, e)
             now == IF SubSeq(s, i + 1, k - 2) = name
                    THEN Canon(SubSeq(s, v, e - 1)) ELSE found
         IN  IF s[j] = "," THEN Property(s, SkipSp(s, j + 1), name, now)
             ELSE now

\* undefined
Undefined == <<>>

\* operation = JSON.parse(operationStr) and the four properties read from it:
\* "error" when JSON.parse throws, "null" when reading a property throws
Operation(s) ==
    LET a == SkipSp(s, 1)
        get(name) == IF s[a] = "{" THEN Property(s, SkipSp(s, a + 1), name, Undefined)
                     ELSE Undefined
    IN  IF ~IsJson(s)
        THEN [kind |-> "error", model |-> Undefined, method |-> Undefined,
              args |-> Undefined, kwargs |-> Undefined]
        ELSE IF s[a] = "null"
        THEN [kind |-> "null", model |-> Undefined, method |-> Undefined,
              args |-> Undefined, kwargs |-> Undefined]
        ELSE [kind |-> "value", model |-> get(<<"model">>), method |-> get(<<"method">>),
              args |-> get(<<"args">>), kwargs |-> get(<<"kwargs">>)]

\* ------------------------------------------------------------ code blocks

\* the three backquotes that open and close a fenced code block, as one lexeme
Fence == "[fence]"

RECURSIVE CodeBlocks(_, _)
\* the group 1 of every match of /[fence](?:python)?\s*([\s\S]*?)\s*[fence]/g
\* from position i on, trimmed
CodeBlocks(s, i) ==
    LET a == IndexOf(s, <<Fence>>, i)
        start == IF a + 1 <= Len(s) /\ s[a + 1] = "python" THEN a + 2 ELSE a + 1
        b == IndexOf(s, <<Fence>>, start)
    IN  IF a = 0 \/ b = 0 THEN <<>>
        ELSE <<Trim(SubSeq(s, start, b - 1))>> \o CodeBlocks(s, b + 1)

\* the code blocks that start with write( or create(
extractOdooCommands(s) ==
    SelectSeq(CodeBlocks(s, 1),
              LAMBDA code : \/ MatchAt(code, <<"write", "(">>, 1)
                            \/ MatchAt(code, <<"create", "(">>, 1))

\* ------------------------------------------------------------ inputs

\* the number of sendMessage calls that pass the guard in one behaviour
MaxSends == 2

Q == "\""

\* what the user types into the textarea (t-model="state.inputMessage")
UserTexts == { <<"set", " ", "chair", " ", "qty", " ", "3", " ", "if", " ", "3", "<", "7">> }

BlankTexts == { <<" ">> }

\* data.response: the texts the model service answers with
PlainResponse ==
    <<"See", " ", "WO", " ", "#", "882", " ", "and", " ", "the", " ", "related",
      " ", "MO", " ", "41">>

WriteResponse ==
    <<"Updated", " ", "the", " ", "chair", ".", "\n", "DATABASE_OPERATION", ":",
      "{", Q, "model", Q, ":", Q, "sale.order.line", Q, ",",
      Q, "method", Q, ":", Q, "write", Q, ",",
      Q, "args", Q, ":", "[", "[", "42", "]", ",",
      "{", Q, "product_uom_qty", Q, ":", "3", "}", "]", ",",
      Q, "kwargs", Q, ":", "{", "}", "}">>

DeleteResponse ==
    <<"DATABASE_OPERATION", ":",
      "{", Q, "model", Q, ":", Q, "sale.order", Q, ",",
      Q, "method", Q, ":", Q, "delete", Q, ",",
      Q, "args", Q, ":", "[", "[", "42", "]", "]", ",",
      Q, "kwargs", Q, ":", "{", "}", "}">>

SpacedResponse ==
    <<"DATABASE_OPERATION", ":", " ",
      "{", Q, "model", Q, ":", " ", Q, "res.partner", Q, ",", " ",
      Q, "method", Q, ":", " ", Q, "create", Q, ",", " ",
      Q, "args", Q, ":", " ", "[", "{", "}", "]", ",", " ",
      Q, "kwargs", Q, ":", " ", "{", "}", "}">>

MentionResponse ==
    <<"DATABASE_OPERATION", ":",
      "{", Q, "model", Q, ":", Q, "crm.lead", Q, ",",
      Q, "method", Q, ":", Q, "write", Q, ",",
      Q, "args", Q, ":", "[", "[", "7", "]", ",",
      "{", Q, "name", Q, ":", Q, "lead", " ", "7", Q, "}", "]", ",",
      Q, "kwargs", Q, ":", "{", "}", "}">>

MalformedResponse ==
    <<"Done", "\n", "DATABASE_OPERATION", ":", "{", Q, "model", Q, ":", Q, "crm.lead", Q, ",">>

TwoResponse ==
    <<"DATABASE_OPERATION", ":",
      "{", Q, "model", Q, ":", Q, "crm.lead", Q, ",",
      Q, "method", Q, ":", Q, "write", Q, ",",
      Q, "args", Q, ":", "[", "[", "7", "]", ",", "{", "}", "]", ",",
      Q, "kwargs", Q, ":", "{", "}", "}", "\n",
      "DATABASE_OPERATION", ":",
      "{", Q, "model", Q, ":", Q, "crm.lead", Q, ",",
      Q, "method", Q, ":", Q, "write", Q, ",",
      Q, "args", Q, ":", "[", "[", "3", "]", ",", "{", "}", "]", ",",
      Q, "kwargs", Q, ":", "{", "}", "}">>

\* a write directive that names no record
NoIdResponse ==
    <<"DATABASE_OPERATION", ":",
      "{", Q, "model", Q, ":", Q, "crm.lead", Q, ",",
      Q, "method", Q, ":", Q, "write", Q, ",",
      Q, "args", Q, ":", "[", "{", "}", "]", ",",
      Q, "kwargs", Q, ":", "{", "}", "}">>

\* a fenced code block with a write call
CodeBlockResponse ==
    <<Fence, "python", "\n",
      "write", "(", "'", "sale.order", "'", ",", " ", "values", "=",
      "{", Q, "id", Q, ":", "42", "}", ")", "\n", Fence>>

Responses ==
    { PlainResponse, WriteResponse, DeleteResponse, SpacedResponse,
      MentionResponse, MalformedResponse, TwoResponse, NoIdResponse,
      CodeBlockResponse }

\* formatResponse then createOdooRecordLinks of each text the service can answer
\* with (lines 232 and 235), and the operation read from it (lines 241-242),
\* tabulated once
Formatted == [r \in Responses |-> createOdooRecordLinks(formatResponse(r))]

Parsed == [r \in Responses |-> Operation(OperationStr(Formatted[r]))]

\* error.message of what the collaborators throw
NetworkError == "Failed to fetch"
BodyError == "Unexpected token < in JSON at position 0"
RpcError == "Access Denied"
SyntaxError == "Unexpected end of JSON input"
TypeError == "Cannot read properties of null"

\* response.status of a reply that is not ok
ErrorStatus == "500"

\* ------------------------------------------------------------ state

VARIABLES
    messages,             \* this.state.messages: the transcript, {content, isUser}
    inputMessage,         \* this.state.inputMessage
    isLoading,            \* this.state.isLoading: the busy flag
    conversationHistory,  \* this.state.conversationHistory: {role, content}
    calls,                \* the sendMessage calls that passed the guard, each with
                          \* its position and its local variables
    fetchLog,             \* the requests made to the model service
    rpcLog,               \* the calls made through this.rpc
    notices,              \* this.notification.add
    reloads,              \* this.action.doAction({tag: 'reload'})
    lastSend,             \* how the latest sendMessage call left its guard
    historyAuthors,       \* for each entry of conversationHistory, who wrote it
    rendered,             \* what lines 232-242 compute from each text the service
                          \* can answer with: pure functions of the text, worked
                          \* out once in Init and constant from then on
    clicks,               \* the handleOdooRecordClick calls, each with its position
                          \* and its local variables
    opened,               \* this.action.doAction({type: 'ir.actions.act_window'})
    widget,               \* the AIAgentWidget component of ai_agent.js: its state,
                          \* its sendMessage calls, its requests and its notices
    input,                \* the argument of a text function applied on its own
    out                   \* the results of the applications, in their order

vars == <<messages, inputMessage, isLoading, conversationHistory, calls, fetchLog,
          rpcLog, notices, reloads, lastSend, historyAuthors, rendered, clicks,
          opened, widget, input, out>>

\* the state of the AIAgentForm component and of its services
formVars ==
    <<messages, inputMessage, isLoading, conversationHistory, calls, fetchLog,
      rpcLog, notices, reloads, lastSend, historyAuthors, rendered>>

\* what the AIAgentForm's sendMessage never touches
beside == <<clicks, opened, widget, input, out>>

\* const operation, before JSON.parse has run
NoOperation ==
    [kind |-> "none", model |-> Undefined, method |-> Undefined,
     args |-> Undefined, kwargs |-> Undefined]

\* the role read in place of the property isUser
IsUserByRole(msg) == "role" \in DOMAIN msg /\ msg.role = "user"

\* msg.isUser as a condition: a property the object does not have is undefined
IsUser(msg) == IF "isUser" \in DOMAIN msg THEN msg.isUser ELSE FALSE

\* this.state.conversationHistory.map(msg => ({role: ..., content: ...}))
HistoryForModel(h) ==
    [i \in 1..Len(h) |->
       [role |-> IF IsUser(h[i]) THEN "user" ELSE "assistant",
        content |-> IF IsUser(h[i]) THEN escapeHtml(h[i].content) ELSE h[i].content]]

\* { content: this.escapeHtml(message), isUser: true }
UserTurn(message) == [content |-> escapeHtml(message), isUser |-> TRUE]

\* the text from the first marker to the end of its line taken out
AssistantTurnWithoutDirective(formattedResponse) ==
    LET a == IndexOf(formattedResponse, Marker, 1)
        n == IndexOf(formattedResponse, <<"\n">>, a + Len(Marker) + 1)
        e == IF n = 0 THEN Len(formattedResponse) ELSE n
    IN  [content |-> IF a = 0 THEN formattedResponse
                     ELSE SubSeq(formattedResponse, 1, a - 1)
                          \o SubSeq(formattedResponse, e + 1, Len(formattedResponse)),
         isUser |-> FALSE]

\* { content: formattedResponse, isUser: false }
AssistantTurn(formattedResponse) == [content |-> formattedResponse, isUser |-> FALSE]

SendRejectedIgnoringBusy == Trim(inputMessage) = <<>>

SendRejectedWhenBusyOnly == isLoading

\* if (!this.state.inputMessage.trim() || this.state.isLoading) return;
SendRejected == Trim(inputMessage) = <<>> \/ isLoading

ResponseOkUnchecked(outcome) == TRUE

\* if (!response.ok) throw ...
ResponseOk(outcome) == outcome = "ok"

ThrowsOnNullOnly(op) == op.kind = "null"

\* JSON.parse(operationStr) throws, or reading operation.model throws
Throws(op) == op.kind \in {"error", "null"}

\* this.notification.add(text + detail, { type })
Notice(type, text, detail, c) ==
    [type |-> type, text |-> text, detail |-> detail, call |-> c]

ExecutionErrorNoticeWithoutDetail(detail, c) ==
    Notice("danger", "Error executing operation", "", c)

\* "Error executing operation: " + error.message, { type: "danger" }
ExecutionErrorNotice(detail, c) ==
    Notice("danger", "Error executing operation: ", detail, c)

\* AIAgentForm.setup and AIAgentWidget.setup
Setup ==
    /\ messages = <<>>
    /\ inputMessage = <<>>
    /\ isLoading = FALSE
    /\ conversationHistory = <<>>
    /\ calls = <<>>
    /\ fetchLog = <<>>
    /\ rpcLog = <<>>
    /\ notices = <<>>
    /\ reloads = 0
    /\ lastSend = "none"
    /\ historyAuthors = <<>>
    /\ rendered = [r \in Responses |->
                      [formattedResponse |-> Formatted[r], operation |-> Parsed[r]]]
    /\ clicks = <<>>
    /\ opened = <<>>
    /\ widget = [messages |-> <<>>, inputMessage |-> <<>>, calls |-> <<>>,
                 fetchLog |-> <<>>, notices |-> <<>>, lastSend |-> "none"]

Init ==
    /\ Setup
    /\ input = <<>>
    /\ out = <<>>

\* the user edits the textarea
TypeInput(t) ==
    /\ inputMessage # t
    /\ inputMessage' = t
    /\ UNCHANGED <<messages, isLoading, conversationHistory, calls, fetchLog,
                   rpcLog, notices, reloads, lastSend, historyAuthors, rendered, beside>>

\* sendMessage() up to its first await: the guard, the user Turn, the history
\* for the model and the fetch
sendMessage ==
    IF SendRejected
    THEN /\ lastSend' = IF isLoading /\ Trim(inputMessage) # <<>>
                        THEN "rejectedBusy" ELSE "rejectedEmpty"
         /\ UNCHANGED <<messages, inputMessage, isLoading, conversationHistory,
                        calls, fetchLog, rpcLog, notices, reloads, historyAuthors,
                        rendered, beside>>
    ELSE LET message == inputMessage
             history == Append(HistoryForModel(conversationHistory),
                               [role |-> "user", content |-> escapeHtml(message)])
             authors == Append(historyAuthors, "user")
         IN  /\ Len(calls) < MaxSends
             /\ messages' = Append(messages, UserTurn(message))
             /\ inputMessage' = <<>>
             /\ isLoading' = TRUE
             /\ fetchLog' = Append(fetchLog,
                    [message |-> message, conversation_history |-> history,
                     authors |-> authors, transcript |-> messages'])
             /\ calls' = Append(calls,
                    [pc |-> "fetch", message |-> message, history |-> history,
                     authors |-> authors, before |-> Len(messages),
                     service |-> "pending", response |-> <<>>, formatted |-> <<>>,
                     operation |-> NoOperation, result |-> "pending", error |-> ""])
             /\ lastSend' = "accepted"
             /\ UNCHANGED <<conversationHistory, rpcLog, notices, reloads,
                            historyAuthors, rendered, beside>>

\* the catch without the finally: the busy flag stays up
CatchSendWithoutFinally(c, outcome, detail) ==
    /\ notices' = Append(notices, Notice("danger", "Error sending message: ", detail, c))
    /\ calls' = [calls EXCEPT ![c].pc = "done", ![c].service = outcome,
                              ![c].result = "modelError", ![c].error = detail]
    /\ UNCHANGED <<messages, inputMessage, isLoading, conversationHistory, fetchLog,
                   rpcLog, reloads, lastSend, historyAuthors, rendered, beside>>

\* catch (error) { notification.add("Error sending message: " + ...) } finally
CatchSend(c, outcome, detail) ==
    /\ notices' = Append(notices, Notice("danger", "Error sending message: ", detail, c))
    /\ isLoading' = FALSE
    /\ calls' = [calls EXCEPT ![c].pc = "done", ![c].service = outcome,
                              ![c].result = "modelError", ![c].error = detail]
    /\ UNCHANGED <<messages, inputMessage, conversationHistory, fetchLog, rpcLog,
                   reloads, lastSend, historyAuthors, rendered, beside>>

\* await fetch(...) returns or rejects; if (!response.ok) throw
FetchReturn(c, outcome) ==
    /\ calls[c].pc = "fetch"
    /\ IF outcome = "network" THEN CatchSend(c, outcome, NetworkError)
       ELSE IF ~ResponseOk(outcome)
       THEN CatchSend(c, outcome, "HTTP error! status: " \o ErrorStatus)
       ELSE /\ calls' = [calls EXCEPT ![c].pc = "json", ![c].service = outcome]
            /\ UNCHANGED <<messages, inputMessage, isLoading, conversationHistory,
                           fetchLog, rpcLog, notices, reloads, lastSend,
                           historyAuthors, rendered, beside>>

\* the assistant Turn, the history written back, finally { isLoading = false }
Finish(c, body, formattedResponse, operation, result, detail) ==
    /\ messages' = Append(messages, AssistantTurn(formattedResponse))
    /\ conversationHistory' = Append(calls[c].history,
           [role |-> "assistant", content |-> formattedResponse])
    /\ historyAuthors' = Append(calls[c].authors, "assistant")
    /\ isLoading' = FALSE
    /\ calls' = [calls EXCEPT ![c].pc = "done", ![c].response = body,
                              ![c].formatted = formattedResponse,
                              ![c].operation = operation, ![c].result = result,
                              ![c].error = detail]
    /\ UNCHANGED <<rendered, beside>>

\* the assistant Turn pushed when the RPC call is issued, not after it
JsonReturnTurnFirst(c, body) ==
    /\ calls[c].pc = "json"
    /\ body \in Responses
    /\ Includes(rendered[body].formattedResponse, Marker)
    /\ ~Throws(rendered[body].operation)
    /\ messages' = Append(messages, AssistantTurn(rendered[body].formattedResponse))
    /\ rpcLog' = Append(rpcLog,
           [model |-> rendered[body].operation.model,
            method |-> rendered[body].operation.method,
            args |-> rendered[body].operation.args,
            kwargs |-> rendered[body].operation.kwargs, call |-> c])
    /\ calls' = [calls EXCEPT ![c].pc = "rpc", ![c].response = body,
                   ![c].formatted = rendered[body].formattedResponse,
                   ![c].operation = rendered[body].operation]
    /\ UNCHANGED <<inputMessage, isLoading, conversationHistory, fetchLog, notices,
                   reloads, lastSend, historyAuthors, rendered, beside>>

\* await response.json() returns data or rejects; formatResponse,
\* createOdooRecordLinks, the directive up to await this.rpc(...)
JsonReturn(c, body) ==
    /\ calls[c].pc = "json"
    /\ IF body = <<"unreadable">>
       THEN CatchSend(c, "unreadable", BodyError)
       ELSE LET formattedResponse == rendered[body].formattedResponse
                operation == rendered[body].operation
                thrown == IF operation.kind = "null" THEN TypeError ELSE SyntaxError
            IN  IF ~Includes(formattedResponse, Marker)
                THEN /\ Finish(c, body, formattedResponse, NoOperation, "answered", "")
                     /\ UNCHANGED <<inputMessage, fetchLog, rpcLog, notices,
                                    reloads, lastSend>>
                ELSE IF Throws(operation)
                THEN /\ notices' = Append(notices, ExecutionErrorNotice(thrown, c))
                     /\ Finish(c, body, formattedResponse, operation, "parseError", thrown)
                     /\ UNCHANGED <<inputMessage, fetchLog, rpcLog, reloads, lastSend>>
                ELSE /\ rpcLog' = Append(rpcLog,
                            [model |-> operation.model, method |-> operation.method,
                             args |-> operation.args, kwargs |-> operation.kwargs,
                             call |-> c])
                     /\ calls' = [calls EXCEPT ![c].pc = "rpc", ![c].response = body,
                                    ![c].formatted = formattedResponse,
                                    ![c].operation = operation]
                     /\ UNCHANGED <<messages, inputMessage, isLoading,
                                    conversationHistory, fetchLog, notices, reloads,
                                    lastSend, historyAuthors, rendered, beside>>

\* await this.rpc(...) returns or throws; the notice, the reload, the rest
RpcReturn(c, outcome) ==
    /\ calls[c].pc = "rpc"
    /\ IF outcome = "ok"
       THEN /\ notices' = Append(notices,
                   Notice("success", "Operation completed successfully", "", c))
            /\ reloads' = reloads + 1
            /\ Finish(c, calls[c].response, calls[c].formatted, calls[c].operation,
                      "executed", "")
       ELSE /\ notices' = Append(notices, ExecutionErrorNotice(RpcError, c))
            /\ reloads' = reloads
            /\ Finish(c, calls[c].response, calls[c].formatted, calls[c].operation,
                      "executionFailed", RpcError)
    /\ UNCHANGED <<inputMessage, fetchLog, rpcLog, lastSend>>

Next ==
    \/ \E t \in UserTexts \cup BlankTexts : TypeInput(t)
    \/ sendMessage
    \/ \E c \in 1..Len(calls) : \E outcome \in {"ok", "network", "status"} :
          FetchReturn(c, outcome)
    \/ \E c \in 1..Len(calls) : \E body \in Responses \cup {<<"unreadable">>} :
          JsonReturn(c, body)
    \/ \E c \in 1..Len(calls) : \E outcome \in {"ok", "error"} : RpcReturn(c, outcome)

Spec == Init /\ [][Next]_vars

\* an await of sendMessage is resumed: fetch, response.json() or this.rpc
\* settles
Returns ==
    \E c \in 1..Len(calls) :
       \/ \E outcome \in {"ok", "network", "status"} : FetchReturn(c, outcome)
       \/ \E body \in Responses \cup {<<"unreadable">>} : JsonReturn(c, body)
       \/ \E outcome \in {"ok", "error"} : RpcReturn(c, outcome)

\* the component when every external call returns
LiveSpec == Init /\ [][Next]_vars /\ WF_vars(Returns)

\* ------------------------------------------------------------ handleOdooRecordClick

\* the number of handleOdooRecordClick calls that reach the query in one behaviour
MaxClicks == 1

\* event.target of a click in the chat: a link of the transcript, or an
\* element that is no link
Targets ==
    UNION { { [class |-> "odoo-record-link",
               dataset |-> RecordLinks(messages[k].content, 1)[n]] :
                n \in 1..Len(RecordLinks(messages[k].content, 1)) } :
            k \in 1..Len(messages) }
    \cup { [class |-> "o_message_content", dataset |-> [model |-> "", id |-> <<>>]] }

\* what search_count answers with
SearchCounts == {0, 1}

TruthyAlways(exists) == TRUE

\* if (exists)
Truthy(exists) == exists # 0

\* handleOdooRecordClick(event) up to its await: the class test, the dataset,
\* the search_count query
handleOdooRecordClick(target) ==
    IF target.class # "odoo-record-link"
    THEN UNCHANGED vars
    ELSE LET model == target.dataset.model
             id == parseInt(target.dataset.id)
             k == Len(clicks) + 1
         IN  /\ Len(clicks) < MaxClicks
             /\ rpcLog' = Append(rpcLog,
                    [model |-> model, method |-> "search_count",
                     args |-> << << <<"id", "=", id>> >> >>, kwargs |-> <<>>,
                     call |-> 0, click |-> k])
             /\ clicks' = Append(clicks,
                    [pc |-> "search_count", model |-> model, id |-> id,
                     threw |-> FALSE, exists |-> 0])
             /\ UNCHANGED <<messages, inputMessage, isLoading, conversationHistory,
                            calls, fetchLog, notices, reloads, lastSend,
                            historyAuthors, rendered, opened, widget, input, out>>

\* await this.rpc(...search_count) returns: doAction, or the warning notice
SearchCountReturn(k, exists) ==
    /\ clicks[k].pc = "search_count"
    /\ IF Truthy(exists)
       THEN /\ opened' = Append(opened,
                   [type |-> "ir.actions.act_window", res_model |-> clicks[k].model,
                    res_id |-> clicks[k].id, click |-> k])
            /\ notices' = notices
       ELSE /\ notices' = Append(notices,
                   [type |-> "warning", text |-> "Record not found: ",
                    detail |-> <<clicks[k].model, "#", clicks[k].id>>,
                    call |-> 0, click |-> k])
            /\ opened' = opened
    /\ clicks' = [clicks EXCEPT ![k].pc = "done", ![k].exists = exists]
    /\ UNCHANGED <<messages, inputMessage, isLoading, conversationHistory, calls,
                   fetchLog, rpcLog, reloads, lastSend, historyAuthors, rendered,
                   widget, input, out>>

\* await this.rpc(...search_count) throws: the catch
SearchCountThrows(k) ==
    /\ clicks[k].pc = "search_count"
    /\ notices' = Append(notices,
           [type |-> "danger", text |-> "Error opening record: ",
            detail |-> RpcError, call |-> 0, click |-> k])
    /\ clicks' = [clicks EXCEPT ![k].pc = "done", ![k].threw = TRUE]
    /\ UNCHANGED <<messages, inputMessage, isLoading, conversationHistory, calls,
                   fetchLog, rpcLog, reloads, lastSend, historyAuthors, rendered,
                   opened, widget, input, out>>

\* data.response: an answer with two record mentions, and one with a directive
ClickResponses == { PlainResponse, WriteResponse }

\* the component with its links clicked
ClickNext ==
    \/ \E t \in UserTexts : TypeInput(t)
    \/ sendMessage
    \/ \E c \in 1..Len(calls) : \E outcome \in {"ok", "network"} :
          FetchReturn(c, outcome)
    \/ \E c \in 1..Len(calls) : \E body \in ClickResponses : JsonReturn(c, body)
    \/ \E c \in 1..Len(calls) : RpcReturn(c, "ok")
    \/ \E target \in Targets : handleOdooRecordClick(target)
    \/ \E k \in 1..Len(clicks) : \E exists \in SearchCounts :
          SearchCountReturn(k, exists)
    \/ \E k \in 1..Len(clicks) : SearchCountThrows(k)

ClickSpec == Init /\ [][ClickNext]_vars

\* ------------------------------------------------------------ AIAgentWidget (ai_agent.js)

\* data.response: the texts the model service answers the widget with
WidgetResponses == { PlainResponse, WriteResponse }

\* if (!this.state.inputMessage.trim()) return;
WidgetSendRejected == Trim(widget.inputMessage) = <<>>

\* the user edits the textarea of the widget
AIAgentWidget_TypeInput(t) ==
    /\ widget.inputMessage # t
    /\ widget' = [widget EXCEPT !.inputMessage = t]
    /\ UNCHANGED <<formVars, clicks, opened, input, out>>

\* AIAgentWidget.sendMessage() up to its await: the guard, the user message,
\* the fetch
AIAgentWidget_sendMessage ==
    /\ IF WidgetSendRejected
       THEN widget' = [widget EXCEPT !.lastSend = "rejectedEmpty"]
       ELSE LET message == widget.inputMessage
            IN  /\ Len(widget.calls) < MaxSends
                /\ widget' =
                      [widget EXCEPT
                         !.messages = Append(@, [content |-> message, isUser |-> TRUE]),
                         !.inputMessage = <<>>,
                         !.fetchLog = Append(@, [message |-> message]),
                         !.calls = Append(@, [pc |-> "fetch", message |-> message,
                                              before |-> Len(widget.messages),
                                              answer |-> 0]),
                         !.lastSend = "accepted"]
    /\ UNCHANGED <<formVars, clicks, opened, input, out>>

\* catch (error) { notification.add("Error sending message: " + ...) }
AIAgentWidget_Catch(c, detail) ==
    widget' = [widget EXCEPT
                 !.notices = Append(@, [type |-> "danger",
                                        text |-> "Error sending message: ",
                                        detail |-> detail, call |-> c]),
                 !.calls[c].pc = "done"]

\* await fetch(...) returns or rejects; if (!response.ok) throw
AIAgentWidget_FetchReturn(c, outcome) ==
    /\ widget.calls[c].pc = "fetch"
    /\ IF outcome = "network" THEN AIAgentWidget_Catch(c, NetworkError)
       ELSE IF outcome # "ok"
       THEN AIAgentWidget_Catch(c, "HTTP error! status: " \o ErrorStatus)
       ELSE widget' = [widget EXCEPT !.calls[c].pc = "json"]
    /\ UNCHANGED <<formVars, clicks, opened, input, out>>

\* await response.json() returns data or rejects; the assistant message
AIAgentWidget_JsonReturn(c, body) ==
    /\ widget.calls[c].pc = "json"
    /\ IF body = <<"unreadable">> THEN AIAgentWidget_Catch(c, BodyError)
       ELSE widget' = [widget EXCEPT
                         !.messages = Append(@, [content |-> body, isUser |-> FALSE]),
                         !.calls[c].pc = "done",
                         !.calls[c].answer = Len(widget.messages) + 1]
    /\ UNCHANGED <<formVars, clicks, opened, input, out>>

WidgetNext ==
    \/ \E t \in UserTexts \cup BlankTexts : AIAgentWidget_TypeInput(t)
    \/ AIAgentWidget_sendMessage
    \/ \E c \in 1..Len(widget.calls) : \E outcome \in {"ok", "network", "status"} :
          AIAgentWidget_FetchReturn(c, outcome)
    \/ \E c \in 1..Len(widget.calls) :
          \E body \in WidgetResponses \cup {<<"unreadable">>} :
             AIAgentWidget_JsonReturn(c, body)

WidgetSpec == Init /\ [][WidgetNext]_vars

\* ------------------------------------------------------------ the text functions on their own

\* the number of pieces a text is put together from
MaxPieces == 2

\* the number of times createOdooRecordLinks is applied in a row
MaxApplications == 2

\* record mentions and the plain text around them
LinkPieces ==
    { <<"WO", " ", "#", "882">>, <<"MO", " ", "41">>, <<"lead", " ", "7">>,
      <<"Invoice", " ", "#", "42">>, <<"and">>, <<"3", "<", "7">> }

\* the spans formatResponse wraps in placeholders: a URL, an e-mail address,
\* a decimal number, a dotted date, two of the abbreviations
ProtectedPieces ==
    { <<"https://odoo.example/web">>, <<"bob@example.com">>, <<"3", ".", "7">>,
      <<"3", ".", "7", ".", "2024">>, <<"Dr.">>, <<"e.g.">> }

RECURSIVE Joined(_, _)
\* the texts of at most n pieces with one space between two pieces
Joined(pieces, n) ==
    IF n = 0 THEN {<<>>}
    ELSE LET shorter == Joined(pieces, n - 1)
         IN  shorter \cup {IF t = <<>> THEN q ELSE t \o <<" ">> \o q :
                              t \in shorter, q \in pieces}

\* the arguments the two functions are applied to
Texts == Joined(LinkPieces, MaxPieces) \cup Joined(ProtectedPieces, MaxPieces)

TextInit ==
    /\ Setup
    /\ input \in Texts
    /\ out = <<>>

\* createOdooRecordLinks(text), then createOdooRecordLinks of its own result
ApplyCreateOdooRecordLinks ==
    /\ Len(out) < MaxApplications
    /\ \A k \in 1..Len(out) : out[k].fn = "createOdooRecordLinks"
    /\ out' = Append(out,
           [fn |-> "createOdooRecordLinks",
            value |-> createOdooRecordLinks(IF out = <<>> THEN input
                                            ELSE out[Len(out)].value)])
    /\ UNCHANGED <<formVars, clicks, opened, widget, input>>

\* formatResponse(text)
ApplyFormatResponse ==
    /\ out = <<>>
    /\ out' = <<[fn |-> "formatResponse", value |-> formatResponse(input)]>>
    /\ UNCHANGED <<formVars, clicks, opened, widget, input>>

TextNext == ApplyCreateOdooRecordLinks \/ ApplyFormatResponse

TextSpec == TextInit /\ [][TextNext]_vars

\* ------------------------------------------------------------ claims

Frames == 1..Len(calls)

Done(c) == calls[c].pc = "done"

\* the model service gave this call a readable response
Answered(c) == calls[c].response \in Responses

\* the this.rpc calls and the notices of one sendMessage call
RpcOf(c) == SelectSeq(rpcLog, LAMBDA e : e.call = c)
NoticesOf(c) == SelectSeq(notices, LAMBDA n : n.call = c)

\* the Turn of the transcript at the k-th place after those that were there
\* when call c passed the guard
TurnAfter(c, k) == messages[calls[c].before + k]

\* what the transcript and the model history hold once call c has appended
\* the assistant Turn for the text the service answered with
AssistantTurnStands(c) ==
    LET text == Formatted[calls[c].response]
    IN  /\ Len(messages) >= calls[c].before + 2
        /\ TurnAfter(c, 1) = [content |-> escapeHtml(calls[c].message), isUser |-> TRUE]
        /\ TurnAfter(c, 2) = [content |-> text, isUser |-> FALSE]
        /\ c = Len(calls) =>
              conversationHistory =
                 Append(calls[c].history, [role |-> "assistant", content |-> text])

\* the methods of the allow-list of the specification
AllowList == { <<Q, "write", Q>>, <<Q, "create", Q>> }

\* C1: an operation directive whose method is not on the allow-list is never
\* submitted to the RPC collaborator: every call made through this.rpc for a
\* directive carries an allow-listed method.
C1_OnlyAllowListedSubmitted ==
    \A k \in 1..Len(rpcLog) : rpcLog[k].method \in AllowList

\* C2: at most one sendMessage is in flight; a send issued while one is in
\* flight makes no model-service call and appends nothing, so while a call is
\* in flight the transcript ends with its user Turn, and once it has completed
\* with an answer the session has gained exactly that user Turn and one
\* assistant Turn.
C2_SingleInFlight ==
    /\ Cardinality({c \in Frames : ~Done(c)}) <= 1
    /\ Len(fetchLog) = Len(calls)
    /\ \A c \in Frames :
          /\ TurnAfter(c, 1) = [content |-> escapeHtml(calls[c].message), isUser |-> TRUE]
          /\ ~Done(c) => Len(messages) = calls[c].before + 1
          /\ (Done(c) /\ Answered(c)) =>
                /\ TurnAfter(c, 2) = [content |-> calls[c].formatted, isUser |-> FALSE]
                /\ IF c = Len(calls) THEN Len(messages) = calls[c].before + 2
                   ELSE calls[c + 1].before = calls[c].before + 2

\* a non-empty send was turned away while the latest call was in flight, and
\* that call has since completed with an answer
C2_Witness ==
    /\ lastSend = "rejectedBusy"
    /\ calls # <<>>
    /\ Done(Len(calls))
    /\ Answered(Len(calls))

\* C3: when the model-service call fails (network error, non-2xx status,
\* unreadable body) an error notice is emitted, no assistant Turn is appended,
\* no operation is executed and the user Turn of that send stays.
C3_ModelFailure ==
    \A c \in Frames :
       (Done(c) /\ calls[c].service \in {"network", "status", "unreadable"}) =>
          /\ \E k \in 1..Len(notices) :
                /\ notices[k].call = c
                /\ notices[k].type = "danger"
                /\ notices[k].text = "Error sending message: "
          /\ RpcOf(c) = <<>>
          /\ TurnAfter(c, 1) = [content |-> escapeHtml(calls[c].message), isUser |-> TRUE]
          /\ IF c = Len(calls) THEN Len(messages) = calls[c].before + 1
             ELSE calls[c + 1].before = calls[c].before + 1

C3_Witness ==
    \E c \in Frames : Done(c) /\ calls[c].service = "status" /\ c < Len(calls)

\* C4: when the RPC execution fails a failure notice carrying the error detail
\* is emitted, the assistant Turn with the formatted text is still appended,
\* and the transcript and the model history are what they are after an
\* execution that succeeded.
C4_ExecutionFailure ==
    \A c \in Frames :
       (Done(c) /\ calls[c].result \in {"executed", "executionFailed"}) =>
          /\ AssistantTurnStands(c)
          /\ calls[c].result = "executionFailed" =>
                \E k \in 1..Len(notices) :
                   /\ notices[k].call = c
                   /\ notices[k].type = "danger"
                   /\ notices[k].detail = RpcError

C4_Witness == \E c \in Frames : Done(c) /\ calls[c].result = "executionFailed"

\* C5: on every model-service call each entry of conversation_history carries
\* the role of the author of its Turn.
C5_RolesAreAuthors ==
    \A k \in 1..Len(fetchLog) :
       \A i \in 1..Len(fetchLog[k].conversation_history) :
          fetchLog[k].conversation_history[i].role = fetchLog[k].authors[i]

\* C6: on every model-service call the history sent is the Turn sequence of
\* the session as appended so far, ending with the current user Turn.
C6_HistoryIsTranscript ==
    \A k \in 1..Len(fetchLog) :
       [i \in 1..Len(fetchLog[k].conversation_history) |->
           fetchLog[k].conversation_history[i].content]
       = [i \in 1..Len(fetchLog[k].transcript) |-> fetchLog[k].transcript[i].content]

RECURSIVE DirectiveLines(_, _)
\* the line that follows each marker of a text, from position `from` on
DirectiveLines(f, from) ==
    LET a == IndexOf(f, Marker, from)
        b == IndexOf(f, Marker, a + Len(Marker))
        seg == SubSeq(f, a + Len(Marker), IF b = 0 THEN Len(f) ELSE b - 1)
    IN  IF a = 0 THEN <<>>
        ELSE <<Head(SplitLines(Trim(seg)))>> \o DirectiveLines(f, a + Len(Marker))

\* the number of directives of the formatted text that parse
DirectiveCount ==
    [r \in Responses |->
       LET ls == DirectiveLines(Formatted[r], 1)
       IN  Cardinality({k \in 1..Len(ls) : Operation(ls[k]).kind = "value"})]

\* C8: for each operation directive detected in a model response, one or
\* several, exactly one RPC execution attempt is made during that turn.
C8_OneAttemptPerDirective ==
    \A c \in Frames :
       (Done(c) /\ Answered(c)) => Len(RpcOf(c)) = DirectiveCount[calls[c].response]

\* the directive as the model wrote it: the line after the marker of the
\* response text itself
Written == [r \in Responses |-> Operation(OperationStr(r))]

\* C9: for a response with a well-formed, allow-listed single-line directive
\* the RPC collaborator receives exactly the model, method, args and kwargs
\* written in it, and on RPC success a success notice is emitted and a data
\* refresh is requested.
C9_ExecutedAsWritten ==
    \A c \in Frames :
       LET r == calls[c].response
       IN  (/\ Done(c)
            /\ Answered(c)
            /\ Includes(r, Marker)
            /\ Written[r].kind = "value"
            /\ Written[r].method \in AllowList) =>
              /\ RpcOf(c) = << [model |-> Written[r].model, method |-> Written[r].method,
                               args |-> Written[r].args, kwargs |-> Written[r].kwargs,
                               call |-> c] >>
              /\ calls[c].result = "executed" =>
                    /\ \E k \in 1..Len(notices) :
                          notices[k].call = c /\ notices[k].type = "success"
                    /\ reloads >= 1

\* C10 as stated: when a directive is executed, the assistant Turn of the
\* transcript holds the text with the directive line removed.
C10_DirectiveHidden ==
    \A c \in Frames :
       (Done(c) /\ calls[c].result = "executed") =>
          ~Includes(TurnAfter(c, 2).content, Marker)

\* C10 as amended: when a directive is executed, the assistant Turn of the
\* transcript holds the formatted and linkified text in full, the marker and
\* the directive line included.
C10_DirectiveShown ==
    \A c \in Frames :
       (Done(c) /\ calls[c].result = "executed") =>
          /\ TurnAfter(c, 2) = [content |-> Formatted[calls[c].response], isUser |-> FALSE]
          /\ Includes(TurnAfter(c, 2).content,
                      Marker \o OperationStr(Formatted[calls[c].response]))

C10_Witness ==
    \E c \in Frames :
       Done(c) /\ calls[c].result = "executed" /\ calls[c].response = WriteResponse

\* the directive read from the formatted text before createOdooRecordLinks
\* has run on it
Unlinkified == [r \in Responses |-> Operation(OperationStr(formatResponse(r)))]

\* the payload of the directive holds a record mention: createOdooRecordLinks
\* puts a link into it
MentionInPayload ==
    [r \in Responses |->
       LET payload == OperationStr(formatResponse(r))
       IN  createOdooRecordLinks(payload) # payload]

\* C11: the directive is read from the formatted text that is not yet
\* linkified: a directive whose payload holds a record mention is parsed and
\* executed as the model wrote it, so the RPC collaborator receives the
\* operation that the formatted text without links gives.
C11_ParsedBeforeLinkify ==
    \A c \in Frames :
       LET r == calls[c].response
       IN  (/\ Done(c)
            /\ Answered(c)
            /\ Includes(r, Marker)
            /\ Unlinkified[r].kind = "value"
            /\ MentionInPayload[r]) =>
              RpcOf(c) = << [model |-> Unlinkified[r].model,
                            method |-> Unlinkified[r].method,
                            args |-> Unlinkified[r].args,
                            kwargs |-> Unlinkified[r].kwargs, call |-> c] >>

\* the candidates of a response: the directives of the formatted text and its
\* code blocks that begin with write( or create(
Candidates ==
    [r \in Responses |->
       Len(DirectiveLines(formatResponse(r), 1))
       + Len(extractOdooCommands(formatResponse(r)))]

\* C12: every candidate of a model response, directive or code block, ends in
\* a terminal state that is reported to the user: once the call is over there
\* is one notice for each of its candidates.
C12_EveryCandidateReported ==
    \A c \in Frames :
       (Done(c) /\ Answered(c)) => Len(NoticesOf(c)) = Candidates[calls[c].response]

\* C13: a send whose input is empty or only whitespace calls no model service
\* and leaves the transcript, the model history, the input and the busy flag
\* as they are.
C13_EmptySendIsNoOp ==
    [][(sendMessage /\ Trim(inputMessage) = <<>>) =>
          UNCHANGED <<messages, conversationHistory, inputMessage, isLoading,
                      fetchLog, calls>>]_vars

\* a send of whitespace was turned away with the busy flag down and a
\* transcript that is not empty
C13_Witness ==
    /\ lastSend = "rejectedEmpty"
    /\ inputMessage \in BlankTexts
    /\ ~isLoading
    /\ messages # <<>>

\* s is a prefix of t
IsPrefix(s, t) == Len(s) <= Len(t) /\ SubSeq(t, 1, Len(s)) = s

\* C14: the Turn sequence only grows by appending, in the transcript and in
\* the history written back: across every step the earlier sequence is a
\* prefix of the later one.
C14_TurnsOnlyAppended ==
    [][/\ IsPrefix(messages, messages')
       /\ IsPrefix(conversationHistory, conversationHistory')]_vars

\* the number of lexemes t in a text
Count(s, t) == Cardinality({i \in 1..Len(s) : s[i] = t})

\* C15: createOdooRecordLinks never rewrites text inside a link it produced:
\* the "<" of its result are those of its argument and two for each link (no
\* link was scanned again and split), and applied to its own result it
\* returns that result unchanged.
C15_LinkifyOnce ==
    \A k \in 1..Len(out) :
       out[k].fn = "createOdooRecordLinks" =>
          /\ Count(out[k].value, "<")
                = Count(input, "<") + 2 * Len(RecordLinks(out[k].value, 1))
          /\ k > 1 => out[k].value = out[k - 1].value

\* createOdooRecordLinks was applied to its own result, which holds a link
\* whose label is itself a record mention
C15_Witness ==
    /\ Len(out) = 2
    /\ out[2].fn = "createOdooRecordLinks"
    /\ \E k \in 1..Len(RecordLinks(out[1].value, 1)) :
          RecordLinks(out[1].value, 1)[k].model = "crm.lead"

RECURSIVE Mentions(_, _)
\* the record mentions of a text from position i on, in their order: a
\* keyword of one of the patterns followed by a number, with the model of the
\* pattern (the first in the order of the patterns) and the number
Mentions(s, i) ==
    LET hits == {j \in i..Len(s) :
                   \E n \in 1..Len(patterns) : RecordMatch(s, patterns[n], j) > 0}
        j == Min(hits)
        p == patterns[Min({n \in 1..Len(patterns) : RecordMatch(s, patterns[n], j) > 0})]
        e == j + RecordMatch(s, p, j)
    IN  IF hits = {} THEN <<>>
        ELSE <<[model |-> p.model, id |-> SubSeq(s, IdStart(s, p, j), e - 1)]>>
             \o Mentions(s, e)

\* C16: for a text with record mentions createOdooRecordLinks produces one
\* link per mention, in the order of the mentions, each with the model of
\* the keyword and the number that follows it, whatever plain text stands
\* around the mentions.
C16_OneLinkPerMention ==
    (Len(out) >= 1 /\ out[1].fn = "createOdooRecordLinks") =>
       RecordLinks(out[1].value, 1) = Mentions(input, 1)

\* the texts made of protected spans only
ProtectedTexts == Joined(ProtectedPieces, MaxPieces)

\* C18: for a line made of protected spans only, formatResponse returns the
\* trimmed line unchanged.
C18_ProtectedSpansUnchanged ==
    (Len(out) >= 1 /\ out[1].fn = "formatResponse" /\ input \in ProtectedTexts) =>
       out[1].value = Trim(input)

\* the queries, and the outcomes by kind, of one handleOdooRecordClick call
QueriesOf(k) == SelectSeq(rpcLog, LAMBDA e : "click" \in DOMAIN e /\ e.click = k)

Navigations(k) == Len(SelectSeq(opened, LAMBDA o : o.click = k))

ClickNotices(k, type) ==
    Len(SelectSeq(notices,
                  LAMBDA n : "click" \in DOMAIN n /\ n.click = k /\ n.type = type))

IdentifierShaped(model) ==
    Len(model) = 3 /\ model[1] = Q /\ model[3] = Q /\ model[2] # ""

\* operation.args starts with an id or a list of ids
HasId(args) ==
    /\ Len(args) >= 3
    /\ args[1] = "["
    /\ args[2] \in Digits \/ (args[2] = "[" /\ args[3] \in Digits)

\* C19: an operation is submitted to the RPC collaborator only if its model
\* is a non-empty identifier-shaped string and, for the method write, an id
\* is present.
C19_OnlyValidSubmitted ==
    \A k \in 1..Len(rpcLog) :
       /\ IdentifierShaped(rpcLog[k].model)
       /\ rpcLog[k].method = <<Q, "write", Q>> => HasId(rpcLog[k].args)

\* C20: in the AIAgentWidget at most one sendMessage is in flight, and each
\* assistant message stands directly after the user message it answers.
C20_WidgetSingleInFlight ==
    /\ Cardinality({c \in 1..Len(widget.calls) : widget.calls[c].pc # "done"}) <= 1
    /\ \A c \in 1..Len(widget.calls) :
          widget.calls[c].answer # 0 =>
             widget.calls[c].answer = widget.calls[c].before + 2

\* C21: when a send is accepted the busy flag is up from before the
\* model-service call starts until the call is over; it is cleared in the end
\* whatever the outcome, provided the external calls return; and with the
\* flag down a non-empty send is accepted.
C21_BusyFlagCleared ==
    /\ [](\A c \in Frames : ~Done(c) => isLoading)
    /\ [][Len(fetchLog') > Len(fetchLog) => isLoading']_vars
    /\ [][(sendMessage /\ ~isLoading /\ Trim(inputMessage) # <<>>) =>
             (lastSend' = "accepted" /\ Len(fetchLog') = Len(fetchLog) + 1)]_vars
    /\ (isLoading ~> ~isLoading)

\* the flag is down after a call that ended in an RPC failure, and a send
\* after it was accepted and is over too
C21_Witness ==
    /\ ~isLoading
    /\ Len(calls) >= 2
    /\ calls[1].result = "executionFailed"
    /\ Done(2)

\* C22: user-authored text is escaped exactly once: the user Turn of the
\* transcript holds escapeHtml of the typed text, and so does every entry a
\* user wrote in the conversation_history of a model-service call, the
\* current message as well as the replayed ones.
C22_EscapedOnce ==
    /\ \A c \in Frames : TurnAfter(c, 1).content = escapeHtml(calls[c].message)
    /\ \A k \in 1..Len(fetchLog) :
          LET h == fetchLog[k].conversation_history
          IN  /\ h[Len(h)].content = escapeHtml(fetchLog[k].message)
              /\ \A i \in 1..Len(h) :
                    fetchLog[k].authors[i] = "user" =>
                       \E j \in 1..k : h[i].content = escapeHtml(fetchLog[j].message)

\* a second model-service call replays the user Turn of the first, whose
\* typed text holds a character that escapeHtml rewrites
C22_Witness ==
    /\ Len(fetchLog) = 2
    /\ Len(fetchLog[2].conversation_history) = 3
    /\ fetchLog[2].authors[1] = "user"
    /\ escapeHtml(fetchLog[1].message) # fetchLog[1].message
    /\ escapeHtml(escapeHtml(fetchLog[1].message)) # escapeHtml(fetchLog[1].message)

\* C23: within one accepted send the user Turn is in the transcript when the
\* model-service call is made; while the call is in flight, the RPC attempt
\* included, no assistant Turn is appended for it; the RPC attempt is made
\* for the operation read from the formatted and linkified answer and
\* appends nothing to the transcript; and the assistant Turn, the formatted
\* and linkified answer, is there once the call is over, after the notice of
\* the execution attempt.
C23_EventOrder ==
    /\ [](\A c \in Frames :
            /\ fetchLog[c].transcript = SubSeq(messages, 1, calls[c].before + 1)
            /\ fetchLog[c].transcript[calls[c].before + 1] = UserTurn(calls[c].message)
            /\ ~Done(c) => Len(messages) = calls[c].before + 1
            /\ calls[c].pc = "rpc" =>
                  /\ calls[c].formatted = Formatted[calls[c].response]
                  /\ calls[c].operation = Parsed[calls[c].response]
                  /\ Len(RpcOf(c)) = 1
                  /\ NoticesOf(c) = <<>>
            /\ (Done(c) /\ Answered(c)) =>
                  /\ Len(messages) >= calls[c].before + 2
                  /\ TurnAfter(c, 2) = AssistantTurn(Formatted[calls[c].response])
                  /\ Includes(calls[c].formatted, Marker) => Len(NoticesOf(c)) = 1)
    /\ [][Len(rpcLog') > Len(rpcLog) => messages' = messages]_vars
    /\ [][(Len(messages') > Len(messages) /\ ~messages'[Len(messages')].isUser) =>
             (rpcLog' = rpcLog /\ \A c \in Frames : calls'[c].pc = "done")]_vars

\* an RPC attempt is in flight, and an earlier call is over whose attempt
\* failed
C23_Witness ==
    \E c, e \in Frames :
       /\ calls[c].pc = "rpc"
       /\ Done(e)
       /\ calls[e].result = "executionFailed"

\* the kind a call's outcome is to be surfaced with
NoticeKind(result) == IF result = "parseError" THEN "warning" ELSE "danger"

\* C24: a malformed directive payload is surfaced as a notice of kind
\* warning; a model-service failure and an RPC execution failure are each
\* surfaced as a notice of kind danger.
C24_NoticeKinds ==
    \A c \in Frames :
       (Done(c) /\ calls[c].result \in {"parseError", "modelError", "executionFailed"}) =>
          /\ Len(NoticesOf(c)) = 1
          /\ NoticesOf(c)[1].type = NoticeKind(calls[c].result)

====
